---------------------------- MODULE Spec2Model ----------------------------
(*************************************************************************)
(* Model of lib/optimize/InnerGraphPlugin.js: the inner graph of         *)
(* top-level symbols, TopLevelSymbol.addDependency, the parser hooks     *)
(* that build the graph, and the finish hook that flattens the graph     *)
(* and publishes usedByExports on every PureExpressionDependency.        *)
(*************************************************************************)
EXTENDS Integers, Sequences, FiniteSets, TLC

(***************************** bounds ************************************)
\* number of addDependency calls made from outside the hooks in one run
MaxCalls == 4
\* number of parser events in one run
MaxEvents == 5
\* longest distance between a binding identifier and its initializer
MaxGap == 10
\* number of tagged names an initializer refers to
MaxRefs == 1
\* number of conditional expressions in an argument of isPure
MaxConds == 2

(***************************** values ************************************)
\* names of top-level declarations and of exports
Names == {"a", "b", "c"}
ExportNames == {"x"}
\* names of the declarators that get a PureExpressionDependency
PureNames == {"a"}

\* graph nodes: a TopLevelSymbol object (name + identity), a
\* PureExpressionDependency object, an export-name string; TrueArg is the
\* argument `true` of addDependency
Sym(n, i) == [type |-> "symbol", name |-> n, id |-> i]
Dep(n, i) == [type |-> "dependency", name |-> n, id |-> i]
Str(e) == [type |-> "string", name |-> e, id |-> 0]
TrueArg == [type |-> "true", name |-> "", id |-> 0]

\* the values of the InnerGraph map: undefined, true, Set<string|TopLevelSymbol>
\* (a JS Set iterates in insertion order: a sequence without repetitions)
UNDEFINED == [kind |-> "undefined", items |-> <<>>]
ALWAYS == [kind |-> "true", items |-> <<>>]
SetOf(items) == [kind |-> "set", items |-> items]

Range(s) == {s[i] : i \in 1..Len(s)}

\* Set.prototype.add
SetAdd(s, x) == IF x \in Range(s) THEN s ELSE Append(s, x)

(************************** the JS Map ***********************************)
\* a Map is the sequence of its entries in insertion order
MapKeys(g) == [i \in 1..Len(g) |-> g[i].key]
MapHas(g, k) == \E i \in 1..Len(g) : g[i].key = k
MapGet(g, k) ==
    IF MapHas(g, k) THEN g[CHOOSE i \in 1..Len(g) : g[i].key = k].value
    ELSE UNDEFINED
MapSet(g, k, v) ==
    IF MapHas(g, k)
    THEN [i \in 1..Len(g) |-> IF g[i].key = k THEN [key |-> k, value |-> v] ELSE g[i]]
    ELSE Append(g, [key |-> k, value |-> v])

(********************** TopLevelSymbol.addDependency *********************)
\* addDependency with the test of line 52 lost: an always-used symbol is
\* given a set again
AddDependencyNoAbsorb(g, this, dep) ==
    LET info == MapGet(g, this) IN
    IF dep = TrueArg THEN MapSet(g, this, ALWAYS)
    ELSE IF info.kind # "set" THEN MapSet(g, this, SetOf(<<dep>>))
    ELSE MapSet(g, this, SetOf(SetAdd(info.items, dep)))

\* addDependency with the add of line 53 turned into a new set: the targets
\* recorded before are dropped
AddDependencyReplace(g, this, dep) ==
    LET info == MapGet(g, this) IN
    IF dep = TrueArg THEN MapSet(g, this, ALWAYS)
    ELSE IF info.kind # "true" THEN MapSet(g, this, SetOf(<<dep>>))
    ELSE g

AddDependency(g, this, dep) ==
    LET info == MapGet(g, this) IN
    IF dep = TrueArg THEN MapSet(g, this, ALWAYS)
    ELSE IF info.kind = "undefined" THEN MapSet(g, this, SetOf(<<dep>>))
    ELSE IF info.kind # "true" THEN MapSet(g, this, SetOf(SetAdd(info.items, dep)))
    ELSE g

(************************ finish hook: flattening ************************)
\* the merge with the typeof test of line 106 lost
MergeAnyItem(newSet, itemValue, i) == SetAdd(newSet, itemValue[i])

\* lines 104-108: merge the strings of a resolved child into newSet
MergeStrings(newSet, itemValue, i) ==
    IF itemValue[i].type = "string" THEN SetAdd(newSet, itemValue[i]) ELSE newSet

RECURSIVE MergeItemValue(_, _, _)
MergeItemValue(newSet, itemValue, i) ==
    IF i > Len(itemValue) THEN newSet
    ELSE MergeItemValue(MergeStrings(newSet, itemValue, i), itemValue, i + 1)

\* lines 111-115 with the empty case lost: a key that gathered no export
\* name keeps the set it had
StoreNewSetSkipEmpty(g, key, newSet) ==
    IF newSet = <<>> THEN g ELSE MapSet(g, key, SetOf(newSet))

\* lines 111-115 with `true` stored for a key that gathered no export name
StoreNewSetTrueWhenEmpty(g, key, newSet) ==
    IF newSet = <<>> THEN MapSet(g, key, ALWAYS) ELSE MapSet(g, key, SetOf(newSet))

\* lines 111-115: the value stored once every item has been visited
StoreNewSet(g, key, newSet) ==
    IF newSet = <<>> THEN MapSet(g, key, UNDEFINED) ELSE MapSet(g, key, SetOf(newSet))

\* the test of line 89 lost: expand runs its body for any key of the graph
ShouldExpandAlways(un, key) == TRUE

\* line 89: a key is expanded only while it is in `unexpanded`
ShouldExpand(un, key) == key \in un

\* the add of line 97 lost: a string item is not put into newSet
AddLeafLost(newSet, item) == newSet

\* lines 96-97: a string item goes into newSet as it is
AddLeaf(newSet, item) == SetAdd(newSet, item)

\* the state threaded through expand: the graph, the set `unexpanded`, and
\* the keys removed from it so far, in order
RECURSIVE Expand(_, _), ExpandItems(_, _, _, _, _)
Expand(st, key) ==
    IF ~ShouldExpand(st.unexpanded, key) THEN st
    ELSE LET st1 == [st EXCEPT !.unexpanded = @ \ {key},
                               !.removed = Append(@, key)]
             value == MapGet(st1.graph, key)
         IN IF value.kind = "set"
            THEN ExpandItems(st1, key, value.items, 1, <<>>)
            ELSE st1

ExpandItems(st, key, items, i, newSet) ==
    IF i > Len(items)
    THEN [st EXCEPT !.graph = StoreNewSet(@, key, newSet)]
    ELSE LET item == items[i] IN
         IF item.type = "string"
         THEN ExpandItems(st, key, items, i + 1, AddLeaf(newSet, item))
         ELSE LET st2 == Expand(st, item)
                  itemValue == MapGet(st2.graph, item)
              IN IF itemValue.kind = "true"
                 THEN [st2 EXCEPT !.graph = MapSet(@, key, ALWAYS)]
                 ELSE ExpandItems(st2, key, items, i + 1,
                                  MergeItemValue(newSet, itemValue.items, 1))

\* lines 118-120: for (const item of unexpanded) expand(item)
RECURSIVE ExpandAll(_, _, _)
ExpandAll(st, keys, i) ==
    IF i > Len(keys) THEN st
    ELSE ExpandAll(Expand(st, keys[i]), keys, i + 1)

FlattenRun(g) ==
    ExpandAll([graph |-> g, unexpanded |-> Range(MapKeys(g)), removed |-> <<>>],
              MapKeys(g), 1)

Flatten(g) == FlattenRun(g).graph

(************************ finish hook: publication ***********************)
\* the switch of lines 124-134 with its first two cases exchanged
DecisionSwapped(value) ==
    IF value.kind = "undefined" THEN [kind |-> "true", items |-> {}]
    ELSE IF value.kind = "true" THEN [kind |-> "false", items |-> {}]
    ELSE [kind |-> "set", items |-> Range(value.items)]

\* lines 123-134: the value stored in dep.usedByExports
Decision(value) ==
    IF value.kind = "undefined" THEN [kind |-> "false", items |-> {}]
    ELSE IF value.kind = "true" THEN [kind |-> "true", items |-> {}]
    ELSE [kind |-> "set", items |-> Range(value.items)]

NotPublished == [kind |-> "none", items |-> {}]

(***************************** state *************************************)
VARIABLES
    innerGraph,      \* parser.state.harmonyInnerGraph: the Map, as its entries
    allExportDependentDependencies,  \* parser.state.harmonyAllExportDependentDependencies
    usedByExports,   \* dep.usedByExports of every PureExpressionDependency
    last,            \* history: the last operation and its arguments
    graphBefore,     \* history: after a finish event, the graph the finish hook started from
    calls,           \* number of addDependency calls so far
    pc,              \* "walk", or the place the finish hook has reached: "loop", "done"
    unexpanded,      \* the Set `unexpanded` of the finish hook
    iter,            \* position of the for-of loop of line 118 in the keys
    stack,           \* the active calls of expand: key, value, position, newSet
    removed,         \* history: the keys deleted from `unexpanded`, in order
    moduleNo,        \* number of program events so far (0: parser.state has no graph yet)
    symbols,         \* the TopLevelSymbol objects created for the current module
    tagData,         \* parser.getTagData(name, topLevelSymbolTag) for every name
    currentTopLevelSymbol,         \* parser.state.currentTopLevelSymbol
    statementWithTopLevelSymbol,   \* the WeakMap's entries: statement node, symbol
    declWithTopLevelSymbol,        \* the WeakMap's entries: declarator node, symbol,
                                   \* membership in pureDeclarators, already walked
    events,          \* number of parser events so far
    walking          \* history: the symbol of the tracked declaration the parser is inside

flattenVars == <<pc, unexpanded, iter, stack, removed>>

parserVars == <<moduleNo, symbols, tagData, currentTopLevelSymbol,
                statementWithTopLevelSymbol, declWithTopLevelSymbol, events,
                walking>>

graphVars == <<innerGraph, allExportDependentDependencies, usedByExports,
               last, graphBefore, calls>>

vars == <<graphVars, flattenVars, parserVars>>

\* the TopLevelSymbol objects addDependency is called on and with
TopLevelSymbols == {Sym(n, 0) : n \in Names}
Exports == {Str(e) : e \in ExportNames}
AllDeps == {Dep(n, 0) : n \in PureNames}

\* the loop of lines 121-135 run before the loop of lines 118-120: the
\* decisions are read from the graph as the traversal left it
PublishUnflattened(g, pending, used) ==
    [d \in DOMAIN used |->
        IF d \in pending THEN Decision(MapGet(innerGraph, d)) ELSE used[d]]

\* lines 121-135: dep.usedByExports for every dep of the pending set
Publish(g, pending, used) ==
    [d \in DOMAIN used |-> IF d \in pending THEN Decision(MapGet(g, d)) ELSE used[d]]

Op(name, this, dep) == [op |-> name, this |-> this, dep |-> dep]
None == [type |-> "none", name |-> "", id |-> 0]

\* names that can carry a tag: the declared names and the name of an
\* anonymous default export
DefaultName == "*default*"
TagNames == Names \cup {DefaultName}

\* the parser side before the program event
ParserIdle ==
    /\ moduleNo = 0
    /\ symbols = {}
    /\ tagData = [n \in TagNames |-> None]
    /\ currentTopLevelSymbol = None
    /\ statementWithTopLevelSymbol = <<>>
    /\ declWithTopLevelSymbol = <<>>
    /\ events = 0
    /\ walking = None

FlattenIdle ==
    /\ pc = "walk"
    /\ unexpanded = {}
    /\ iter = 0
    /\ stack = <<>>
    /\ removed = <<>>

\* the state the program hook leaves (lines 77-80)
Init ==
    /\ innerGraph = <<>>
    /\ allExportDependentDependencies = {}
    /\ usedByExports = <<>>
    /\ last = Op("program", None, None)
    /\ graphBefore = <<>>
    /\ calls = 0
    /\ FlattenIdle
    /\ ParserIdle

\* symbol.addDependency(dep), lines 46-55
CallAddDependency(s, dep) ==
    /\ calls < MaxCalls
    /\ innerGraph' = AddDependency(innerGraph, s, dep)
    /\ calls' = calls + 1
    /\ last' = Op("addDependency", s, dep)
    /\ graphBefore' = <<>>
    /\ UNCHANGED <<allExportDependentDependencies, usedByExports, flattenVars, parserVars>>

\* declarator hook, lines 249-255: a new PureExpressionDependency for symbol fn
NewPureDependency(d) ==
    /\ d \notin allExportDependentDependencies
    /\ innerGraph' = MapSet(innerGraph, d, SetOf(<<Sym(d.name, 0)>>))
    /\ allExportDependentDependencies' = allExportDependentDependencies \cup {d}
    /\ usedByExports' = (d :> NotPublished) @@ usedByExports
    /\ last' = Op("declarator", d, None)
    /\ graphBefore' = <<>>
    /\ UNCHANGED <<calls, flattenVars, parserVars>>

\* finish hook, lines 82-136
Finish ==
    /\ innerGraph' = Flatten(innerGraph)
    /\ usedByExports' = Publish(innerGraph', allExportDependentDependencies, usedByExports)
    /\ last' = Op("finish", None, None)
    /\ graphBefore' = innerGraph
    /\ UNCHANGED <<allExportDependentDependencies, calls, flattenVars, parserVars>>

Next ==
    \/ \E s \in TopLevelSymbols, dep \in TopLevelSymbols \cup Exports \cup {TrueArg} :
           CallAddDependency(s, dep)
    \/ \E d \in AllDeps : NewPureDependency(d)
    \/ Finish

Spec == Init /\ [][Next]_vars

(************** the finish hook, one step of expand at a time ************)
\* the graphs that n operations (addDependency calls, pure declarators) build
RECURSIVE BuiltGraphs(_)
BuiltGraphs(n) ==
    IF n = 0 THEN {<<>>}
    ELSE LET P == BuiltGraphs(n - 1) IN
         P \cup {AddDependency(g, s, dep) :
                    g \in P, s \in TopLevelSymbols,
                    dep \in TopLevelSymbols \cup Exports \cup {TrueArg}}
           \cup {MapSet(g, d, SetOf(<<Sym(d.name, 0)>>)) : g \in P, d \in AllDeps}

\* the state when the finish event arrives
InitExpand ==
    /\ innerGraph \in BuiltGraphs(MaxCalls)
    /\ allExportDependentDependencies = {d \in AllDeps : MapHas(innerGraph, d)}
    /\ usedByExports = [d \in allExportDependentDependencies |-> NotPublished]
    /\ last = Op("program", None, None)
    /\ graphBefore = <<>>
    /\ calls = 0
    /\ FlattenIdle
    /\ ParserIdle

Frame(key, items) ==
    [key |-> key, items |-> items, idx |-> 1, newSet |-> <<>>, at |-> "item"]
Top == stack[Len(stack)]
Popped == SubSeq(stack, 1, Len(stack) - 1)

\* lines 83-87: const unexpanded = new Set(innerGraph.keys())
StartFinish ==
    /\ pc = "walk"
    /\ pc' = "loop"
    /\ unexpanded' = Range(MapKeys(innerGraph))
    /\ iter' = 1
    /\ removed' = <<>>
    /\ graphBefore' = innerGraph
    /\ last' = Op("finish", None, None)
    /\ UNCHANGED <<innerGraph, allExportDependentDependencies, usedByExports,
                   calls, stack, parserVars>>

\* lines 89-92: the call expand(key), made with the callers' frames stk
EnterExpand(key, stk) ==
    IF ~ShouldExpand(unexpanded, key)
    THEN stack' = stk /\ UNCHANGED <<unexpanded, removed>>
    ELSE /\ unexpanded' = unexpanded \ {key}
         /\ removed' = Append(removed, key)
         /\ stack' = IF MapGet(innerGraph, key).kind = "set"
                      THEN Append(stk, Frame(key, MapGet(innerGraph, key).items))
                      ELSE stk

\* lines 118-120: the next key of the for-of loop over `unexpanded`
\* (a key deleted before the loop reaches it is not visited)
LoopStep ==
    /\ pc = "loop" /\ stack = <<>> /\ iter <= Len(innerGraph)
    /\ iter' = iter + 1
    /\ IF MapKeys(innerGraph)[iter] \in unexpanded
       THEN EnterExpand(MapKeys(innerGraph)[iter], stack)
       ELSE UNCHANGED <<unexpanded, removed, stack>>
    /\ UNCHANGED <<innerGraph, allExportDependentDependencies, usedByExports,
                   last, graphBefore, calls, pc, parserVars>>

\* lines 94-98 and 111-115: the next item of the set being expanded
ItemStep ==
    /\ pc = "loop" /\ stack # <<>> /\ Top.at = "item"
    /\ IF Top.idx > Len(Top.items)
       THEN /\ innerGraph' = StoreNewSet(innerGraph, Top.key, Top.newSet)
            /\ stack' = Popped
            /\ UNCHANGED <<unexpanded, removed>>
       ELSE IF Top.items[Top.idx].type = "string"
       THEN /\ stack' = [stack EXCEPT ![Len(stack)] =
                            [Top EXCEPT !.newSet = SetAdd(@, Top.items[Top.idx]),
                                        !.idx = @ + 1]]
            /\ UNCHANGED <<innerGraph, unexpanded, removed>>
       ELSE /\ EnterExpand(Top.items[Top.idx],
                           [stack EXCEPT ![Len(stack)] = [Top EXCEPT !.at = "returned"]])
            /\ UNCHANGED innerGraph
    /\ UNCHANGED <<allExportDependentDependencies, usedByExports,
                   last, graphBefore, calls, pc, iter, parserVars>>

\* lines 99-108: expand(item) has returned
AfterExpand ==
    /\ pc = "loop" /\ stack # <<>> /\ Top.at = "returned"
    /\ LET itemValue == MapGet(innerGraph, Top.items[Top.idx]) IN
       IF itemValue.kind = "true"
       THEN /\ innerGraph' = MapSet(innerGraph, Top.key, ALWAYS)
            /\ stack' = Popped
       ELSE /\ stack' = [stack EXCEPT ![Len(stack)] =
                            [Top EXCEPT !.newSet = MergeItemValue(@, itemValue.items, 1),
                                        !.idx = @ + 1,
                                        !.at = "item"]]
            /\ UNCHANGED innerGraph
    /\ UNCHANGED <<allExportDependentDependencies, usedByExports,
                   last, graphBefore, calls, pc, iter, unexpanded, removed, parserVars>>

\* lines 121-135: the publication loop, which ends the finish hook
PublishStep ==
    /\ pc = "loop" /\ stack = <<>> /\ iter > Len(innerGraph)
    /\ usedByExports' = Publish(innerGraph, allExportDependentDependencies, usedByExports)
    /\ pc' = "done"
    /\ UNCHANGED <<innerGraph, allExportDependentDependencies,
                   last, graphBefore, calls, iter, unexpanded, removed, stack, parserVars>>

FinishStep == StartFinish \/ LoopStep \/ ItemStep \/ AfterExpand \/ PublishStep

NextExpand == FinishStep

\* the finish hook is synchronous code: once called it runs to its end
SpecExpand == InitExpand /\ [][NextExpand]_vars /\ WF_vars(FinishStep)

(********************* the syntax tree the parser walks ******************)
\* expressions: a type and, for a ConditionalExpression, test, consequent
\* and alternate
Atom(t) == [type |-> t, parts |-> <<>>]
Cond(t, c, a) == [type |-> "ConditionalExpression", parts |-> <<t, c, a>>]
NoExpr == Atom("")

\* isPure with the recursion of lines 25-27 lost: every conditional is pure
isPureShallow(expr) ==
    expr.type \in {"Identifier", "Literal", "ConditionalExpression"}

\* lines 18-30
RECURSIVE isPure(_)
isPure(expr) ==
    IF expr.type = "Identifier" THEN TRUE
    ELSE IF expr.type = "Literal" THEN TRUE
    ELSE IF expr.type = "ConditionalExpression"
    THEN isPure(expr.parts[1]) /\ isPure(expr.parts[2]) /\ isPure(expr.parts[3])
    ELSE FALSE

\* a comment: its type and its text, as the characters the pattern of line
\* 223 tells apart ("ws" white space, "#", "@", "__PURE__", "x" anything else)
Comment(t, v) == [type |-> t, value |-> v]

RECURSIVE SkipSpace(_, _)
SkipSpace(v, i) ==
    IF i <= Len(v) /\ v[i] = "ws" THEN SkipSpace(v, i + 1) ELSE i

\* line 223: /^\s*(#|@)__PURE__\s*$/.test(comment.value)
MatchesPure(v) ==
    LET i == SkipSpace(v, 1) IN
    /\ i + 1 <= Len(v)
    /\ v[i] \in {"#", "@"}
    /\ v[i + 1] = "__PURE__"
    /\ SkipSpace(v, i + 2) = Len(v) + 1

\* line 217: the gap the comment search is skipped for
PureGap == 9

\* the test of line 217 turned round: a gap of at most 9
GapAllowsPragmaAtMost(gap) == gap <= PureGap

\* line 217: decl.init.range[0] - decl.id.range[1] > 9
GapAllowsPragma(gap) == gap > PureGap

\* lines 217-224
HasPurePragma(decl) ==
    /\ GapAllowsPragma(decl.gap)
    /\ \E i \in 1..Len(decl.comments) :
           /\ decl.comments[i].type = "Block"
           /\ MatchesPure(decl.comments[i].value)

\* the test of lines 206-210 lost: no initializer counts as a function
FunctionTypesNone == {}

\* lines 207-209
FunctionTypes == {"FunctionExpression", "ArrowFunctionExpression", "ClassExpression"}

\* a declarator node: decl.id, decl.init, the distance between them, the
\* comments parser.getComments returns for that range, and
\* parser.scope.topLevelScope when the parser reaches the node
Declarator(top, idType, name, init, gap, comments) ==
    [node |-> "declarator", topLevel |-> top, idType |-> idType, name |-> name,
     init |-> init, gap |-> gap, comments |-> comments]

\* a statement node: statement.type, statement.id.name ("" for no id),
\* statement.declaration.type, and parser.scope.topLevelScope
Statement(top, type, name, declType) ==
    [node |-> "statement", topLevel |-> top, type |-> type, name |-> name,
     declType |-> declType]

NoNode == [node |-> "none"]

(************************** the symbol registry **************************)
\* the identity of an object made while a module is parsed: the number of
\* the module and the object's number in it
IdsPerModule == MaxEvents + 1
ObjectId(n) == moduleNo * IdsPerModule + n
ModuleOf(node) == node.id \div IdsPerModule

\* new TopLevelSymbol(name, innerGraph): a new object
NewSymbol(name) == Sym(name, ObjectId(Cardinality(symbols) + 1))

\* lines 184-194: the symbol tagVar(name) returns
TagVarSymbol(name) ==
    IF tagData[name] # None THEN tagData[name] ELSE NewSymbol(name)

\* lines 146-147, 160-161, 177-178: a new symbol, whatever the tag holds
FreshSymbol(name) == NewSymbol(name)

\* parser.tagVariable(name, topLevelSymbolTag, fn) and the new object
Register(name, fn) ==
    /\ tagData' = [tagData EXCEPT ![name] = fn]
    /\ symbols' = symbols \cup {fn}

(****************************** the hooks ********************************)
Event(name, node) ==
    /\ events < MaxEvents
    /\ events' = events + 1
    /\ last' = Op(name, node, None)
    /\ graphBefore' = <<>>

\* the program hook without lines 78-79: the graph and the pending set of
\* the module before stay in place
ProgramKeepsGraph ==
    /\ events < MaxEvents
    /\ events' = events + 1
    /\ last' = Op("program", [node |-> "none"], None)
    /\ graphBefore' = <<>>
    /\ moduleNo' = moduleNo + 1
    /\ symbols' = {}
    /\ tagData' = [n \in TagNames |-> None]
    /\ currentTopLevelSymbol' = None
    /\ statementWithTopLevelSymbol' = <<>>
    /\ declWithTopLevelSymbol' = <<>>
    /\ walking' = None
    /\ UNCHANGED <<innerGraph, allExportDependentDependencies, usedByExports, calls,
                   flattenVars>>

\* lines 77-80, with the parser's fresh state and scope for the module
Program ==
    /\ Event("program", NoNode)
    /\ moduleNo' = moduleNo + 1
    /\ innerGraph' = <<>>
    /\ allExportDependentDependencies' = {}
    /\ symbols' = {}
    /\ tagData' = [n \in TagNames |-> None]
    /\ currentTopLevelSymbol' = None
    /\ statementWithTopLevelSymbol' = <<>>
    /\ declWithTopLevelSymbol' = <<>>
    /\ walking' = None
    /\ UNCHANGED <<usedByExports, calls, flattenVars>>

\* lines 139-152
PreStatement(statement) ==
    /\ moduleNo > 0
    /\ Event("preStatement", statement)
    /\ IF statement.topLevel /\ statement.type = "FunctionDeclaration"
       THEN LET name == IF statement.name # "" THEN statement.name ELSE DefaultName
                fn == FreshSymbol(name)
            IN /\ Register(name, fn)
               /\ statementWithTopLevelSymbol' =
                      Append(statementWithTopLevelSymbol, [sym |-> fn])
       ELSE UNCHANGED <<tagData, symbols, statementWithTopLevelSymbol>>
    /\ UNCHANGED <<innerGraph, allExportDependentDependencies, usedByExports, calls,
                   flattenVars, moduleNo, walking, currentTopLevelSymbol, declWithTopLevelSymbol>>

\* lines 153-183
BlockPreStatement(statement) ==
    /\ moduleNo > 0
    /\ Event("blockPreStatement", statement)
    /\ IF statement.topLevel /\ statement.type = "ClassDeclaration"
       THEN LET name == IF statement.name # "" THEN statement.name ELSE DefaultName
                fn == FreshSymbol(name)
            IN /\ Register(name, fn)
               /\ statementWithTopLevelSymbol' =
                      Append(statementWithTopLevelSymbol, [sym |-> fn])
       ELSE IF /\ statement.topLevel
               /\ statement.type = "ExportDefaultDeclaration"
               /\ statement.declType \in FunctionTypes \cup {"Identifier"}
       THEN LET fn == FreshSymbol(DefaultName)
            IN /\ Register(DefaultName, fn)
               /\ statementWithTopLevelSymbol' =
                      Append(statementWithTopLevelSymbol, [sym |-> fn])
       ELSE UNCHANGED <<tagData, symbols, statementWithTopLevelSymbol>>
    /\ UNCHANGED <<innerGraph, allExportDependentDependencies, usedByExports, calls,
                   flattenVars, moduleNo, walking, currentTopLevelSymbol, declWithTopLevelSymbol>>

\* lines 198-235
PreDeclarator(decl) ==
    /\ moduleNo > 0
    /\ Event("preDeclarator", decl)
    /\ IF decl.topLevel /\ decl.init # NoExpr /\ decl.idType = "Identifier"
       THEN IF decl.init.type \in FunctionTypes
            THEN LET fn == TagVarSymbol(decl.name)
                 IN /\ Register(decl.name, fn)
                    /\ declWithTopLevelSymbol' = Append(declWithTopLevelSymbol,
                           [sym |-> fn, pure |-> FALSE, walked |-> FALSE])
            ELSE IF HasPurePragma(decl) \/ isPure(decl.init)
            THEN LET fn == TagVarSymbol(decl.name)
                 IN /\ Register(decl.name, fn)
                    /\ declWithTopLevelSymbol' = Append(declWithTopLevelSymbol,
                           [sym |-> fn, pure |-> TRUE, walked |-> FALSE])
            ELSE UNCHANGED <<tagData, symbols, declWithTopLevelSymbol>>
       ELSE UNCHANGED <<tagData, symbols, declWithTopLevelSymbol>>
    /\ UNCHANGED <<innerGraph, allExportDependentDependencies, usedByExports, calls,
                   flattenVars, moduleNo, walking, currentTopLevelSymbol,
                   statementWithTopLevelSymbol>>

\* lines 236-244: the statement hook for entry i of the WeakMap, or (i = 0)
\* for a statement that has no entry
StatementHook(i, top) ==
    /\ moduleNo > 0
    /\ Event("statement", [node |-> "statement", topLevel |-> top, entry |-> i])
    /\ IF top
       THEN /\ currentTopLevelSymbol' =
                  IF i = 0 THEN None ELSE statementWithTopLevelSymbol[i].sym
            /\ walking' = IF i = 0 THEN None ELSE statementWithTopLevelSymbol[i].sym
       ELSE UNCHANGED <<currentTopLevelSymbol, walking>>
    /\ UNCHANGED <<innerGraph, allExportDependentDependencies, usedByExports, calls,
                   flattenVars, moduleNo, symbols, tagData,
                   statementWithTopLevelSymbol, declWithTopLevelSymbol>>

\* lines 263-270 without the fallback to `true` of line 269
RECURSIVE WalkExpressionNoSentinel(_, _, _)
WalkExpressionNoSentinel(g, refs, current) ==
    IF refs = <<>> THEN g
    ELSE WalkExpressionNoSentinel(
            IF tagData[Head(refs)] # None /\ current # None
            THEN AddDependency(g, tagData[Head(refs)], current)
            ELSE g,
            Tail(refs), current)

\* lines 263-270 for each identifier of refs, in order, that carries a tag
RECURSIVE WalkExpression(_, _, _)
WalkExpression(g, refs, current) ==
    IF refs = <<>> THEN g
    ELSE WalkExpression(
            IF tagData[Head(refs)] # None
            THEN AddDependency(g, tagData[Head(refs)],
                               IF current # None THEN current ELSE TrueArg)
            ELSE g,
            Tail(refs), current)

\* the PureExpressionDependency of line 251
NewDep(name) == Dep(name, ObjectId(Cardinality(allExportDependentDependencies) + 1))

\* lines 245-262: the declarator hook for entry i of the WeakMap, whose
\* initializer refers to the names refs
DeclaratorHook(i, refs) ==
    /\ moduleNo > 0
    /\ i \in 1..Len(declWithTopLevelSymbol)
    /\ ~declWithTopLevelSymbol[i].walked
    /\ Event("declarator", [node |-> "declarator", entry |-> i, refs |-> refs])
    /\ LET fn == declWithTopLevelSymbol[i].sym
           dep == NewDep(fn.name)
       IN IF declWithTopLevelSymbol[i].pure
          THEN /\ innerGraph' = WalkExpression(MapSet(innerGraph, dep, SetOf(<<fn>>)), refs, fn)
               /\ allExportDependentDependencies' = allExportDependentDependencies \cup {dep}
               /\ usedByExports' = (dep :> NotPublished) @@ usedByExports
          ELSE /\ innerGraph' = WalkExpression(innerGraph, refs, fn)
               /\ UNCHANGED <<allExportDependentDependencies, usedByExports>>
    /\ declWithTopLevelSymbol' = [declWithTopLevelSymbol EXCEPT ![i].walked = TRUE]
    /\ currentTopLevelSymbol' = None
    /\ walking' = None
    /\ UNCHANGED <<calls, flattenVars, moduleNo, symbols, tagData,
                   statementWithTopLevelSymbol>>

\* lines 245-247: the declarator hook for a declarator that has no entry
DeclaratorHookUntracked ==
    /\ moduleNo > 0
    /\ Event("declarator", NoNode)
    /\ UNCHANGED <<innerGraph, allExportDependentDependencies, usedByExports, calls,
                   flattenVars, moduleNo, walking, symbols, tagData, currentTopLevelSymbol,
                   statementWithTopLevelSymbol, declWithTopLevelSymbol>>

\* lines 263-270
ExpressionHook(name) ==
    /\ moduleNo > 0
    /\ tagData[name] # None
    /\ Event("expression", tagData[name])
    /\ innerGraph' = WalkExpression(innerGraph, <<name>>, currentTopLevelSymbol)
    /\ UNCHANGED <<allExportDependentDependencies, usedByExports, calls,
                   flattenVars, moduleNo, walking, symbols, tagData, currentTopLevelSymbol,
                   statementWithTopLevelSymbol, declWithTopLevelSymbol>>

\* the operator of an assignment expression
Operator(o) == [type |-> "operator", name |-> o, id |-> 0]

\* the assign hook with line 274 lost: it never returns true
AssignNeverTrue(operator) == FALSE

\* line 274: if (expr.operator === "=") return true
AssignReturnsTrue(operator) == operator = "="

\* lines 271-275: true for "=", so the parser does not walk the left side;
\* for another operator the parser goes on and walks the name as an expression
AssignHook(name, operator) ==
    /\ moduleNo > 0
    /\ tagData[name] # None
    /\ events < MaxEvents
    /\ events' = events + 1
    /\ last' = Op(IF AssignReturnsTrue(operator) THEN "assign" ELSE "expression",
                  tagData[name], Operator(operator))
    /\ graphBefore' = <<>>
    /\ innerGraph' = IF AssignReturnsTrue(operator) THEN innerGraph
                      ELSE WalkExpression(innerGraph, <<name>>, currentTopLevelSymbol)
    /\ UNCHANGED <<allExportDependentDependencies, usedByExports, calls,
                   flattenVars, moduleNo, walking, symbols, tagData, currentTopLevelSymbol,
                   statementWithTopLevelSymbol, declWithTopLevelSymbol>>

\* lines 46-55, called with an export name by the export dependencies
ExportHook(name, e) ==
    /\ moduleNo > 0
    /\ tagData[name] # None
    /\ Event("export", tagData[name])
    /\ innerGraph' = AddDependency(innerGraph, tagData[name], Str(e))
    /\ UNCHANGED <<allExportDependentDependencies, usedByExports, calls,
                   flattenVars, moduleNo, walking, symbols, tagData, currentTopLevelSymbol,
                   statementWithTopLevelSymbol, declWithTopLevelSymbol>>

\* the parser comes to the end of a tracked statement that lies inside
\* another statement (a function declaration in the body of a do-while, in a
\* case of a switch) and goes on with the rest of that statement: no hook is
\* called
LeaveStatement ==
    /\ moduleNo > 0
    /\ walking # None
    /\ walking' = None
    /\ last' = Op("leave", NoNode, None)
    /\ graphBefore' = <<>>
    /\ UNCHANGED <<innerGraph, allExportDependentDependencies, usedByExports, calls,
                   flattenVars, moduleNo, symbols, tagData, currentTopLevelSymbol,
                   statementWithTopLevelSymbol, declWithTopLevelSymbol, events>>

\* lines 82-136
FinishHook ==
    /\ events < MaxEvents
    /\ events' = events + 1
    /\ last' = Op("finish", NoNode, None)
    /\ IF moduleNo = 0
       THEN UNCHANGED <<innerGraph, usedByExports, graphBefore>>
       ELSE /\ innerGraph' = Flatten(innerGraph)
            /\ usedByExports' = Publish(innerGraph', allExportDependentDependencies,
                                        usedByExports)
            /\ graphBefore' = innerGraph
    /\ UNCHANGED <<allExportDependentDependencies, calls, flattenVars, moduleNo, walking,
                   symbols, tagData, currentTopLevelSymbol,
                   statementWithTopLevelSymbol, declWithTopLevelSymbol>>

(************************** the parser's inputs **************************)
Gaps == (PureGap - 1)..MaxGap

PureComments ==
    {<<>>,
     <<Comment("Block", <<"#", "__PURE__">>)>>,
     <<Comment("Block", <<"ws", "@", "__PURE__", "ws">>)>>,
     <<Comment("Line", <<"#", "__PURE__">>)>>,
     <<Comment("Block", <<"#", "__PURE__", "x">>)>>,
     <<Comment("Block", <<"x">>), Comment("Block", <<"ws", "#", "__PURE__">>)>>}

InitExpressions ==
    {Atom("Identifier"), Atom("Literal"), Atom("CallExpression"),
     Atom("FunctionExpression"), Atom("ArrowFunctionExpression"),
     Atom("ClassExpression"),
     Cond(Atom("Identifier"), Atom("Literal"), Atom("Identifier")),
     Cond(Atom("Identifier"), Atom("CallExpression"), Atom("Literal"))}

\* the declarators of the walked modules: a call with every gap and every
\* list of comments, each other initializer with a pragma on both sides of
\* the gap of line 217, and the declarators the hook passes over
Declarators ==
    {Declarator(TRUE, "Identifier", "a", Atom("CallExpression"), g, c) :
        g \in Gaps, c \in PureComments}
    \cup {Declarator(TRUE, "Identifier", "a", e, g, c) :
            e \in InitExpressions, g \in {PureGap, PureGap + 1},
            c \in {<<Comment("Block", <<"#", "__PURE__">>)>>}}
    \cup {Declarator(TRUE, "Identifier", "b", Atom("FunctionExpression"), PureGap, <<>>),
          Declarator(TRUE, "Identifier", "a", NoExpr, 0, <<>>),
          Declarator(TRUE, "ObjectPattern", "", Atom("Literal"), PureGap, <<>>),
          Declarator(FALSE, "Identifier", "a", Atom("Literal"), PureGap, <<>>)}

Statements ==
    {Statement(TRUE, "FunctionDeclaration", "a", ""),
     Statement(TRUE, "FunctionDeclaration", "b", ""),
     Statement(TRUE, "FunctionDeclaration", "", ""),
     Statement(FALSE, "FunctionDeclaration", "a", ""),
     Statement(TRUE, "ClassDeclaration", "a", ""),
     Statement(TRUE, "ClassDeclaration", "", ""),
     Statement(FALSE, "ClassDeclaration", "a", ""),
     Statement(TRUE, "ExportDefaultDeclaration", "", "FunctionExpression"),
     Statement(TRUE, "ExportDefaultDeclaration", "", "Identifier"),
     Statement(TRUE, "ExportDefaultDeclaration", "", "CallExpression"),
     Statement(TRUE, "ExpressionStatement", "", "")}

\* the names an initializer refers to
RECURSIVE RefSeqs(_)
RefSeqs(n) ==
    IF n = 0 THEN {<<>>}
    ELSE RefSeqs(n - 1) \cup {Append(r, x) : r \in RefSeqs(n - 1), x \in Names}

InitParser ==
    /\ innerGraph = <<>>
    /\ allExportDependentDependencies = {}
    /\ usedByExports = <<>>
    /\ last = Op("none", NoNode, None)
    /\ graphBefore = <<>>
    /\ calls = 0
    /\ FlattenIdle
    /\ ParserIdle

NextParser ==
    \/ Program
    \/ \E st \in Statements : PreStatement(st)
    \/ \E st \in Statements : BlockPreStatement(st)
    \/ \E decl \in Declarators : PreDeclarator(decl)
    \/ \E i \in 0..Len(statementWithTopLevelSymbol) : StatementHook(i, TRUE)
    \/ StatementHook(0, FALSE)
    \/ \E i \in 1..Len(declWithTopLevelSymbol), refs \in RefSeqs(MaxRefs) :
           DeclaratorHook(i, refs)
    \/ DeclaratorHookUntracked
    \/ \E n \in TagNames : ExpressionHook(n)
    \/ \E n \in TagNames, o \in {"=", "+="} : AssignHook(n, o)
    \/ \E n \in TagNames, e \in ExportNames : ExportHook(n, e)
    \/ LeaveStatement
    \/ FinishHook

SpecParser == InitParser /\ [][NextParser]_vars

(*********************** isPure on its own *******************************)
\* expression types at the leaves: the two pure ones, and one of the others
LeafTypes == {"Identifier", "Literal", "CallExpression"}

\* further types of expression, none of them named by isPure
OtherTypes == {"MemberExpression", "ObjectExpression", "ArrayExpression", "NewExpression",
               "TemplateLiteral", "FunctionExpression", "ClassExpression"}

\* the expressions with at most n conditional expressions in them
RECURSIVE Expressions(_)
Expressions(n) ==
    IF n = 0 THEN {Atom(t) : t \in LeafTypes}
    ELSE Expressions(n - 1)
         \cup UNION {UNION {{Cond(t, c, a) : t \in Expressions(i),
                                            c \in Expressions(j),
                                            a \in Expressions(n - 1 - i - j)} :
                               j \in 0..(n - 1 - i)} :
                       i \in 0..(n - 1)}

\* the arguments isPure is called with: n conditionals at most
PureInputs(n) ==
    Expressions(n)
    \cup {Atom(t) : t \in OtherTypes}
    \cup {Cond(Atom("Identifier"), Atom(t), Atom("Literal")) : t \in OtherTypes}

Bool(b) == [type |-> "boolean", name |-> IF b THEN "true" ELSE "false", id |-> 0]

InitPure ==
    /\ innerGraph = <<>>
    /\ allExportDependentDependencies = {}
    /\ usedByExports = <<>>
    /\ \E expr \in PureInputs(MaxConds) : last = Op("input", expr, None)
    /\ graphBefore = <<>>
    /\ calls = 0
    /\ FlattenIdle
    /\ ParserIdle

\* one call isPure(expr)
CallIsPure ==
    /\ last.op = "input"
    /\ last' = Op("isPure", last.this, Bool(isPure(last.this)))
    /\ UNCHANGED <<innerGraph, allExportDependentDependencies, usedByExports,
                   graphBefore, calls, flattenVars, parserVars>>

NextPure == CallIsPure

SpecPure == InitPure /\ [][NextPure]_vars

(************************ what the claims speak of ***********************)
SymbolItems(v) == {x \in Range(v.items) : x.type = "symbol"}
StringItems(v) == {x \in Range(v.items) : x.type = "string"}
Keys(g) == Range(MapKeys(g))

\* the nodes reachable from the nodes of S through symbol edges of g
RECURSIVE ReachFrom(_, _)
ReachFrom(g, S) ==
    LET T == S \cup UNION {SymbolItems(MapGet(g, n)) : n \in S}
    IN IF T = S THEN S ELSE ReachFrom(g, T)

\* the transitive closure of the used-by edges of key k in g
ClosureValue(g, k) ==
    LET R == ReachFrom(g, {k})
        leaves == UNION {StringItems(MapGet(g, n)) : n \in R}
    IN IF \E n \in R : MapGet(g, n).kind = "true" THEN [kind |-> "true", items |-> {}]
       ELSE IF leaves = {} THEN [kind |-> "undefined", items |-> {}]
       ELSE [kind |-> "set", items |-> leaves]

\* a graph value with its members as a set
AsSet(v) == [kind |-> v.kind, items |-> Range(v.items)]

\* w holds at least the usage of v (always-used on top, unset at the bottom)
AtLeast(w, v) ==
    \/ w.kind = "true"
    \/ v.kind = "undefined"
    \/ w.kind = "set" /\ v.kind = "set" /\ Range(v.items) \subseteq Range(w.items)

Finished == last.op = "finish"

\* the graph g with its keys inserted in the order p
Reordered(g, p) == [i \in 1..Len(g) |-> g[p[i]]]

\* C1: after the finish event every key holds the transitive closure of its
\* used-by edges (always-used if an always-used node is reachable, else every
\* reachable export name), and no pending dependency that reaches an export
\* name or an always-used node is published with usedByExports = false.
C1_FlattenIsClosure ==
    Finished =>
        /\ \A k \in Keys(graphBefore) :
               AsSet(MapGet(innerGraph, k)) = ClosureValue(graphBefore, k)
        /\ \A d \in allExportDependentDependencies :
               ClosureValue(graphBefore, d).kind # "undefined"
                   => usedByExports[d].kind # "false"

\* C2: flattening the same graph with its keys in any other order gives
\* every key the same value.
C2_OrderIndependent ==
    \A p \in Permutations(1..Len(innerGraph)) :
        \A k \in Keys(innerGraph) :
            AsSet(MapGet(Flatten(Reordered(innerGraph, p)), k))
                = AsSet(MapGet(Flatten(innerGraph), k))

\* C5: one more addDependency call never makes the flattened value of a
\* symbol smaller.
C5_AddingEdgeKeepsUsage ==
    \A s \in TopLevelSymbols, dep \in TopLevelSymbols \cup Exports \cup {TrueArg} :
        \A k \in TopLevelSymbols :
            AtLeast(MapGet(Flatten(AddDependency(innerGraph, s, dep)), k),
                    MapGet(Flatten(innerGraph), k))

\* C4: after the finish event every key is unset, always-used or a non-empty
\* set of export-name strings; no TopLevelSymbol is left in any set.
C4_OnlyLeavesAfterFinish ==
    Finished =>
        \A k \in Keys(innerGraph) :
            LET v == MapGet(innerGraph, k) IN
            \/ v.kind \in {"undefined", "true"} /\ v.items = <<>>
            \/ /\ v.kind = "set"
               /\ v.items # <<>>
               /\ \A x \in Range(v.items) : x.type = "string"

\* a key that had symbols in its set, one of them on a cycle back to the
\* key, has been flattened to a set
C4_Witness ==
    /\ Finished
    /\ \E k \in Keys(innerGraph) :
           /\ MapGet(innerGraph, k).kind = "set"
           /\ \E x \in SymbolItems(MapGet(graphBefore, k)) :
                  k \in ReachFrom(graphBefore, {x})

\* C6: a key whose value is always-used keeps that value through every
\* later addDependency call, registration and finish event.
C6_AlwaysUsedAbsorbing ==
    [][\A k \in Keys(innerGraph) :
          MapGet(innerGraph, k).kind = "true" => MapGet(innerGraph', k).kind = "true"]_vars

\* addDependency has been called with a symbol or an export name on a key
\* that was always-used (such a call cannot itself make it always-used)
C6_Witness ==
    /\ last.op = "addDependency"
    /\ last.dep # TrueArg
    /\ MapGet(innerGraph, last.this).kind = "true"

\* C7: after the finish event every pending dependency has the decision that
\* mirrors its flattened graph value (unset: false, always-used: true, a set:
\* exactly its export names), a dependency that is not pending has none, and
\* the graph is the flattened graph, untouched by the publication.
C7_PublicationMirrorsGraph ==
    Finished =>
        /\ \A d \in allExportDependentDependencies :
               LET v == MapGet(innerGraph, d)
                   u == usedByExports[d]
               IN /\ v.kind = "undefined" => u = [kind |-> "false", items |-> {}]
                  /\ v.kind = "true" => u = [kind |-> "true", items |-> {}]
                  /\ v.kind = "set" => u = [kind |-> "set", items |-> Range(v.items)]
        /\ \A d \in DOMAIN usedByExports \ allExportDependentDependencies :
               usedByExports[d] = NotPublished
        /\ allExportDependentDependencies \subseteq DOMAIN usedByExports
        /\ innerGraph = Flatten(graphBefore)
        /\ allExportDependentDependencies \subseteq Keys(innerGraph)

\* a pending dependency has been published with a set of export names
C7_Witness ==
    /\ Finished
    /\ \E d \in allExportDependentDependencies :
           /\ usedByExports[d].kind = "set"
           /\ usedByExports[d].items # {}

NoRepeat(q) == \A i, j \in 1..Len(q) : q[i] = q[j] => i = j

\* C3: the finish hook reaches its end on every graph: each key is deleted
\* from `unexpanded` exactly once, the body of expand runs at most once per
\* key (one frame per deleted key, never a second), and the run ends with
\* the result the recursive definition gives.
C3_ExpandOncePerKey ==
    /\ NoRepeat(removed)
    /\ Range(removed) \cap unexpanded = {}
    /\ pc # "walk" => Range(removed) \cup unexpanded = Keys(innerGraph)
    /\ NoRepeat([i \in 1..Len(stack) |-> stack[i].key])
    /\ \A i \in 1..Len(stack) : stack[i].key \in Range(removed)
    /\ pc = "done" =>
           /\ unexpanded = {} /\ stack = <<>>
           /\ Range(removed) = Keys(innerGraph)
           /\ Len(removed) = Len(innerGraph)
           /\ innerGraph = Flatten(graphBefore)
           /\ removed = FlattenRun(graphBefore).removed

C3_Terminates == []C3_ExpandOncePerKey /\ <>(pc = "done")

\* the finish hook has ended on a graph with a cycle through three symbols
\* and a symbol that holds itself
C3_Witness ==
    /\ pc = "done"
    /\ \E k \in Keys(graphBefore) : k \in SymbolItems(MapGet(graphBefore, k))
    /\ \E k \in Keys(graphBefore) :
           \E x \in SymbolItems(MapGet(graphBefore, k)) \ {k} :
               \E y \in SymbolItems(MapGet(graphBefore, x)) \ {k, x} :
                   k \in SymbolItems(MapGet(graphBefore, y))

(*************************** the parser's hooks **************************)
\* a block comment of the pragma's form is among the comments of decl
HasBlockPureComment(decl) ==
    \E i \in 1..Len(decl.comments) :
        /\ decl.comments[i].type = "Block"
        /\ MatchesPure(decl.comments[i].value)

\* a top-level declarator of an identifier whose initializer is of an impure
\* shape and no function or class expression
ImpureDeclarator(decl) ==
    /\ decl.node = "declarator"
    /\ decl.topLevel
    /\ decl.idType = "Identifier"
    /\ decl.init # NoExpr
    /\ decl.init.type \notin FunctionTypes
    /\ ~isPure(decl.init)

\* the step is the preDeclarator hook on an impure declarator
PreDeclaratorStep == last'.op = "preDeclarator" /\ ImpureDeclarator(last'.this)

\* the step registered the declarator as a pure one: a new entry of the
\* WeakMap, in pureDeclarators, whose symbol is the tag of the name
TreatedAsPure ==
    /\ Len(declWithTopLevelSymbol') = Len(declWithTopLevelSymbol) + 1
    /\ LET entry == declWithTopLevelSymbol'[Len(declWithTopLevelSymbol')]
       IN /\ entry.pure
          /\ entry.sym.name = last'.this.name
          /\ tagData'[last'.this.name] = entry.sym

AlwaysUsed(g, s) == MapGet(g, s) = ALWAYS

\* C9: a reference that resolves to a registered symbol s calls addDependency
\* on s with the current top-level symbol when there is one and with `true`
\* otherwise; the statement hook of a top-level statement that is no tracked
\* declaration clears the current symbol, so a reference from it makes s
\* always used, and an always used s is still always used after the finish
\* hook.
C9_ReferenceState ==
    last.op = "expression" =>
        /\ last.this \in symbols
        /\ MapHas(innerGraph, last.this)
        /\ IF currentTopLevelSymbol = None
           THEN AlwaysUsed(innerGraph, last.this)
           ELSE \/ AlwaysUsed(innerGraph, last.this)
                \/ currentTopLevelSymbol \in Range(MapGet(innerGraph, last.this).items)

C9_ReferenceStep ==
    /\ last'.op = "expression" =>
           /\ last'.this \in {tagData[n] : n \in TagNames} \ {None}
           /\ innerGraph' = AddDependency(innerGraph, last'.this,
                                IF currentTopLevelSymbol # None
                                THEN currentTopLevelSymbol ELSE TrueArg)
           /\ currentTopLevelSymbol' = currentTopLevelSymbol
    /\ (last'.op = "statement" /\ last'.this.topLevel /\ last'.this.entry = 0)
           => currentTopLevelSymbol' = None
    /\ (last'.op = "finish" /\ moduleNo > 0) =>
           \A s \in symbols :
               AlwaysUsed(innerGraph, s) => AlwaysUsed(innerGraph', s)

C9_ReferenceUsesContext == []C9_ReferenceState /\ [][C9_ReferenceStep]_vars

\* a reference from a tracked declaration was recorded with its symbol
C9_WitnessContext ==
    /\ last.op = "expression"
    /\ currentTopLevelSymbol # None
    /\ ~AlwaysUsed(innerGraph, last.this)
    /\ currentTopLevelSymbol \in Range(MapGet(innerGraph, last.this).items)

\* a symbol referred to while there was no current symbol (nothing else
\* stores `true` for a symbol) went through the finish hook always used
C9_Witness ==
    /\ last.op = "finish"
    /\ moduleNo > 0
    /\ currentTopLevelSymbol = None
    /\ \E s \in symbols :
           /\ AlwaysUsed(graphBefore, s)
           /\ AlwaysUsed(innerGraph, s)

\* C10: at most one TopLevelSymbol per declared name exists in a module,
\* however the name is declared and however many times.
C10_OneSymbolPerName ==
    \A s1 \in symbols : \A s2 \in symbols : s1.name = s2.name => s1 = s2

\* every value of g is unset, always-used or a set of export-name strings
LeafOnly(g) ==
    \A k \in Keys(g) : \A x \in Range(MapGet(g, k).items) : x.type = "string"

\* g and h have the same keys and every key the same members
SameValues(g, h) ==
    /\ Keys(g) = Keys(h)
    /\ \A k \in Keys(g) : AsSet(MapGet(g, k)) = AsSet(MapGet(h, k))

\* C11: flattening is idempotent: a finish event on a graph whose values are
\* only unset, always-used or sets of export names leaves every key's value
\* as it was, and flattening the graph a finish event has left gives that
\* graph again.
C11_FlattenIdempotent ==
    Finished =>
        /\ SameValues(Flatten(innerGraph), innerGraph)
        /\ LeafOnly(graphBefore) => SameValues(innerGraph, graphBefore)

\* the finish event has run on a graph that an earlier finish event left:
\* a key stored as unset (only flattening stores that), a key with a set of
\* export names
C11_Witness ==
    /\ Finished
    /\ LeafOnly(graphBefore)
    /\ \E k \in Keys(graphBefore) : MapGet(graphBefore, k).kind = "undefined"
    /\ \E k \in Keys(graphBefore) : MapGet(graphBefore, k).kind = "set"

\* no export name and no always-used node is reachable from key k in g
ReachesNothing(g, k) == ClosureValue(g, k).kind = "undefined"

\* C12: a key from which no export name and no always-used node is reachable
\* (symbols that refer only to one another: a self-reference, a mutual
\* cycle, a longer cycle) is unset after the finish event. The runs insert
\* the keys of such a graph in every order, so this is every order of
\* expansion.
C12_PureCycleIsUnset ==
    Finished =>
        \A k \in Keys(graphBefore) :
            ReachesNothing(graphBefore, k) => MapGet(innerGraph, k) = UNDEFINED

\* the finish event has run on a cycle through three symbols, none of which
\* reaches an export name or an always-used node
C12_Witness ==
    /\ Finished
    /\ \E k \in Keys(graphBefore) :
           /\ ReachesNothing(graphBefore, k)
           /\ \E x \in SymbolItems(MapGet(graphBefore, k)) \ {k} :
                  \E y \in SymbolItems(MapGet(graphBefore, x)) \ {k, x} :
                      k \in SymbolItems(MapGet(graphBefore, y))
           /\ MapGet(innerGraph, k) = UNDEFINED

\* the step is the assign event for an assignment with operator o
AssignStep(o) == last'.dep = Operator(o) /\ events' = events + 1

\* C13: the assign event of a simple assignment (operator "=") to a tagged
\* name leaves the graph, the pending set and the current symbol as they
\* were; an assignment with another operator is not exempted: the name is
\* walked as a reference and addDependency is called on its symbol.
C13_SimpleAssignIsNoUsage ==
    [][/\ AssignStep("=") =>
              /\ last'.op = "assign"
              /\ UNCHANGED <<innerGraph, allExportDependentDependencies, usedByExports,
                             currentTopLevelSymbol, tagData, symbols>>
       /\ AssignStep("+=") =>
              /\ last'.op = "expression"
              /\ innerGraph' = AddDependency(innerGraph, last'.this,
                                   IF currentTopLevelSymbol # None
                                   THEN currentTopLevelSymbol ELSE TrueArg)]_vars

\* a simple assignment to a name whose symbol holds a set of export names
\* has been walked, and the symbol still holds a set
C13_Witness ==
    /\ last.op = "assign"
    /\ last.dep = Operator("=")
    /\ last.this \in symbols
    /\ MapGet(innerGraph, last.this).kind = "set"

\* the step is a call s.addDependency(dep)
AddDependencyStep == last'.op = "addDependency" /\ calls' = calls + 1

\* C14: s.addDependency(target) changes the entry of s and no other: nothing
\* when s is always-used, always-used when target is `true`, otherwise the
\* set of s with target added (a new set when s was unset); so until the
\* finish event the value of every key only moves upwards, from unset to a
\* set to a larger set to always-used.
C14_AddDependencyMovesUp ==
    [][/\ AddDependencyStep =>
              LET s == last'.this
                  old == MapGet(innerGraph, s)
                  new == MapGet(innerGraph', s)
              IN /\ Len(innerGraph') =
                        Len(innerGraph) + (IF MapHas(innerGraph, s) THEN 0 ELSE 1)
                 /\ MapHas(innerGraph', s)
                 /\ \A i \in 1..Len(innerGraph) :
                        innerGraph[i].key # s => innerGraph'[i] = innerGraph[i]
                 /\ old.kind = "true" => innerGraph' = innerGraph
                 /\ (old.kind # "true" /\ last'.dep = TrueArg) => new = ALWAYS
                 /\ (old.kind # "true" /\ last'.dep # TrueArg) =>
                        /\ new.kind = "set"
                        /\ Range(new.items) = Range(old.items) \cup {last'.dep}
       /\ last'.op # "finish" =>
              /\ Len(innerGraph') >= Len(innerGraph)
              /\ \A i \in 1..Len(innerGraph) :
                     /\ innerGraph'[i].key = innerGraph[i].key
                     /\ AtLeast(innerGraph'[i].value, innerGraph[i].value)]_vars

\* addDependency has added a second target to the set of a symbol
C14_Witness ==
    /\ last.op = "addDependency"
    /\ last.dep # TrueArg
    /\ LET v == MapGet(innerGraph, last.this)
       IN /\ v.kind = "set"
          /\ Len(v.items) >= 2
          /\ v.items[Len(v.items)] = last.dep

\* C15: the current top-level symbol is set only while a tracked
\* declaration is being walked, so a reference is attributed to the symbol
\* of the tracked declaration the parser is inside, and a reference made
\* after a tracked declaration, back in a statement or declarator that is
\* not tracked, is recorded with `true` and never with the symbol of the
\* earlier declaration.
C15_ContextOnlyWhileWalked ==
    last.op = "expression" =>
        IF walking = None
        THEN AlwaysUsed(innerGraph, last.this)
        ELSE \/ AlwaysUsed(innerGraph, last.this)
             \/ walking \in Range(MapGet(innerGraph, last.this).items)

\* the symbol of the declarator a PureExpressionDependency was made for
OwnSymbol(d) == Sym(d.name, 0)

\* in graph g dependency d still holds what the declarator hook stored
Unflattened(g, d) == MapGet(g, d) = SetOf(<<OwnSymbol(d)>>)

\* C16: the finish event publishes for every pending dependency the
\* flattened value of the symbol of its own declarator (false when the symbol
\* is unset, true when it is always-used, else exactly the symbol's export
\* names). The runs insert the dependency and the symbols as keys in every
\* order, so this is every order of expansion.
C16_DependencyFollowsSymbol ==
    Finished =>
        \A d \in allExportDependentDependencies :
            Unflattened(graphBefore, d) =>
                LET v == MapGet(innerGraph, OwnSymbol(d))
                    u == usedByExports[d]
                IN /\ u.kind = "false" <=> v.kind = "undefined"
                   /\ u.kind = "true" <=> v.kind = "true"
                   /\ u.kind = "set" <=> v.kind = "set"
                   /\ u.items = Range(v.items)
                   /\ AsSet(MapGet(innerGraph, d)) = AsSet(v)

\* a dependency whose symbol lies on a cycle of symbols has been published
\* with the export names the symbol flattened to
C16_Witness ==
    /\ Finished
    /\ \E d \in allExportDependentDependencies :
           /\ Unflattened(graphBefore, d)
           /\ usedByExports[d].kind = "set"
           /\ usedByExports[d].items = Range(MapGet(innerGraph, OwnSymbol(d)).items)
           /\ \E x \in SymbolItems(MapGet(graphBefore, OwnSymbol(d))) \ {OwnSymbol(d)} :
                  OwnSymbol(d) \in ReachFrom(graphBefore, {x})

\* a top-level declarator of an identifier whose initializer is no function,
\* arrow or class expression and is pure by its shape or by a pragma
Eligible(decl) ==
    /\ decl.node = "declarator"
    /\ decl.topLevel
    /\ decl.idType = "Identifier"
    /\ decl.init # NoExpr
    /\ decl.init.type \notin
           {"FunctionExpression", "ArrowFunctionExpression", "ClassExpression"}
    /\ \/ isPure(decl.init)
       \/ HasBlockPureComment(decl) /\ decl.gap > PureGap

\* the entries of declarators that are pure and have been walked
WalkedPure ==
    {i \in 1..Len(declWithTopLevelSymbol) :
        declWithTopLevelSymbol[i].pure /\ declWithTopLevelSymbol[i].walked}

C17_PendingState ==
    /\ allExportDependentDependencies \subseteq Keys(innerGraph)
    /\ Cardinality(allExportDependentDependencies) = Cardinality(WalkedPure)
    /\ \A d \in allExportDependentDependencies :
           \E i \in WalkedPure :
               /\ declWithTopLevelSymbol[i].sym.name = d.name
               /\ declWithTopLevelSymbol[i].sym \in symbols

C17_PendingStep ==
    /\ last'.op = "preDeclarator" =>
           /\ allExportDependentDependencies' = allExportDependentDependencies
           /\ Eligible(last'.this) <=>
                  /\ Len(declWithTopLevelSymbol') = Len(declWithTopLevelSymbol) + 1
                  /\ declWithTopLevelSymbol'[Len(declWithTopLevelSymbol')].pure
    /\ (last'.op = "declarator" /\ last'.this.node = "declarator") =>
           LET entry == declWithTopLevelSymbol[last'.this.entry]
           IN IF entry.pure
              THEN \E dep \in allExportDependentDependencies' :
                      /\ dep \notin allExportDependentDependencies
                      /\ dep \notin Keys(innerGraph)
                      /\ allExportDependentDependencies' =
                             allExportDependentDependencies \cup {dep}
                      /\ MapGet(innerGraph', dep) = SetOf(<<entry.sym>>)
              ELSE allExportDependentDependencies' = allExportDependentDependencies
    /\ (last'.op = "declarator" /\ last'.this.node = "none") =>
           allExportDependentDependencies' = allExportDependentDependencies
    /\ last'.op \in {"preStatement", "blockPreStatement", "statement", "expression",
                     "assign", "export", "leave"} =>
           allExportDependentDependencies' = allExportDependentDependencies
    /\ last'.op \notin {"program", "finish"} =>
           \A d \in allExportDependentDependencies :
               MapGet(innerGraph', d) = MapGet(innerGraph, d)

\* C17: a PureExpressionDependency is made only for a top-level declarator of
\* an identifier whose initializer is no function, arrow or class expression
\* and is pure by shape or pragma, one for each such declarator that is
\* walked; every pending dependency is a key of the graph, stored with the
\* set holding only its declarator's symbol and unchanged by every later event
\* of the traversal; function and class declarations and function-valued
\* declarators get a symbol and no dependency.
C17_OneDependencyPerPureDeclarator == []C17_PendingState /\ [][C17_PendingStep]_vars

\* two pure declarators of one name have been walked: two dependencies, both
\* stored with the one symbol of the name
C17_Witness ==
    /\ last.op = "declarator"
    /\ Cardinality(allExportDependentDependencies) = 2
    /\ \E s \in symbols :
           \A d \in allExportDependentDependencies :
               MapGet(innerGraph, d) = SetOf(<<s>>)

\* the export names held by the nodes reachable from k in g
ReachableLeaves(g, k) == UNION {StringItems(MapGet(g, n)) : n \in ReachFrom(g, {k})}

\* an always-used node is reachable from k in g
ReachesAlways(g, k) == \E n \in ReachFrom(g, {k}) : MapGet(g, n).kind = "true"

\* C18: the finish event invents no usage: every export name in a key's
\* flattened value is held by a node reachable from the key in the graph
\* before, a key is always-used afterwards only when an always-used node was
\* reachable from it, and a symbol that is no key, or reaches no export name
\* and no always-used node, is unset afterwards.
C18_FlattenInventsNothing ==
    Finished =>
        /\ \A k \in Keys(graphBefore) :
               LET v == MapGet(innerGraph, k)
                   leaves == ReachableLeaves(graphBefore, k)
                   always == ReachesAlways(graphBefore, k)
               IN /\ Range(v.items) \subseteq leaves
                  /\ v.kind = "true" => always
                  /\ (leaves = {} /\ ~always) => v = UNDEFINED
        /\ Keys(innerGraph) = Keys(graphBefore)
        /\ \A s \in TopLevelSymbols \ Keys(graphBefore) :
               MapGet(innerGraph, s) = UNDEFINED

\* the finish event has given a key export names it did not hold itself and
\* has made a key always-used through another one
C18_Witness ==
    /\ Finished
    /\ \E k \in Keys(graphBefore) :
           /\ StringItems(MapGet(graphBefore, k)) = {}
           /\ MapGet(innerGraph, k).kind = "set"
    /\ \E k \in Keys(graphBefore) :
           /\ MapGet(graphBefore, k).kind = "set"
           /\ MapGet(innerGraph, k).kind = "true"

\* the types of all nodes of an expression
RECURSIVE NodeTypes(_)
NodeTypes(expr) ==
    {expr.type} \cup UNION {NodeTypes(expr.parts[i]) : i \in 1..Len(expr.parts)}

\* C19: isPure returns true exactly for an identifier, a literal, and a
\* conditional expression whose test, consequent and alternate are all pure
\* in the same sense (an expression built of nothing but conditionals over
\* identifiers and literals); every other expression is impure.
C19_PureShapes ==
    last.op = "isPure" =>
        (last.dep = Bool(TRUE) <=>
            NodeTypes(last.this) \subseteq {"Identifier", "Literal", "ConditionalExpression"})
        /\ last.dep \in {Bool(TRUE), Bool(FALSE)}

\* isPure has turned down a conditional whose parts are pure but for a call
\* two levels down
C19_Witness ==
    /\ last.op = "isPure"
    /\ last.dep = Bool(FALSE)
    /\ last.this.type = "ConditionalExpression"
    /\ \E i \in 1..3 :
           /\ last.this.parts[i].type = "ConditionalExpression"
           /\ \E j \in 1..3 : last.this.parts[i].parts[j].type = "CallExpression"
           /\ \A j \in 1..3 :
                  last.this.parts[i].parts[j].type \in {"Identifier", "CallExpression"}
    /\ \A i \in 1..3 :
           last.this.parts[i].type \in {"Identifier", "Literal", "ConditionalExpression"}

\* the symbols and dependencies the graph g holds, as keys and in sets
NodesOf(g) ==
    Keys(g) \cup UNION {SymbolItems(MapGet(g, k)) : k \in Keys(g)}

C20_ModuleState ==
    /\ \A n \in NodesOf(innerGraph) : ModuleOf(n) = moduleNo
    /\ \A d \in allExportDependentDependencies : ModuleOf(d) = moduleNo
    /\ \A s \in symbols : ModuleOf(s) = moduleNo

C20_ModuleStep ==
    /\ last'.op = "program" =>
           /\ innerGraph' = <<>>
           /\ allExportDependentDependencies' = {}
           /\ usedByExports' = usedByExports
    /\ last'.op = "finish" =>
           /\ \A n \in NodesOf(innerGraph') : ModuleOf(n) = moduleNo
           /\ \A d \in DOMAIN usedByExports :
                  ModuleOf(d) # moduleNo => usedByExports'[d] = usedByExports[d]

\* C20: the program event puts an empty graph and an empty pending set in
\* place; from then on the graph and the pending set hold only symbols and
\* dependencies of the module being parsed, and the finish event flattens
\* and publishes nothing of a module parsed before.
C20_FreshGraphPerModule == []C20_ModuleState /\ [][C20_ModuleStep]_vars

\* the finish event of a second module has run while a dependency of the
\* first module, whose graph had entries, exists and keeps its value
C20_Witness ==
    /\ last.op = "finish"
    /\ moduleNo = 2
    /\ \E d \in DOMAIN usedByExports :
           /\ ModuleOf(d) = 1
           /\ d \notin allExportDependentDependencies
           /\ \neg MapHas(innerGraph, d)
           /\ usedByExports[d] = NotPublished

=============================================================================
